---- MODULE Spec2Model ----
(***************************************************************************)
(* Model of models/f1_lstm_strategy_sim.py: the pit-loss estimator of      *)
(* LSTMLapTimeModel and the lap loop of LSTMSimulator.simulate.            *)
(*                                                                         *)
(* Durations are whole seconds.  Historical lap times are drawn from even  *)
(* numbers, so that every median the estimator takes (the mean of the two  *)
(* middle values of an even-sized sample) is a whole number and \div 2 is  *)
(* exact.                                                                  *)
(*                                                                         *)
(* The trained network is outside the engine; it is represented by a       *)
(* deterministic per-timestep function of the feature steps it is given    *)
(* (LapTimeOf), whose per-driver base pace is part of the fitted model.    *)
(***************************************************************************)
EXTENDS Integers, Sequences, FiniteSets, TLC

VARIABLES
    df,                   \* historical lap records the model is fitted on
    pit_loss_by_circuit,  \* LSTMLapTimeModel.pit_loss_by_circuit
    max_len,              \* SeqPreprocessor.max_len
    pace,                 \* the fitted predictor (base pace per driver)
    config,               \* the RaceConfig handed to simulate
    pc,                   \* "new", "fitted", "running", "done", "failed"
    pit_loss,             \* simulate: pit_loss
    state,                \* simulate: state[name]
    history,              \* simulate: history[name]
    order,                \* simulate: order
    timeline,             \* simulate: timeline
    lap,                  \* simulate: lap (0 before the loop)
    hists,                \* simulate: hist passed to predict_sequence, per driver, this lap
    yhats,                \* simulate: float(yhat_seq[len(hist)-1]), per driver, this lap
    result,               \* the dict simulate returns
    fault                 \* the call <<lap, driver>> in which model.predict raises, or NoFault

vars == <<df, pit_loss_by_circuit, max_len, pace, config, pc, pit_loss, state,
          history, order, timeline, lap, hists, yhats, result, fault>>

-----------------------------------------------------------------------------
(* Bounds of the explored inputs *)

MaxLaps == 3        \* total_laps ranges over 0..MaxLaps, max_len over 1..MaxLaps
MaxRecords == 4     \* rows of the historical data set
SlowPace == 91      \* base pace of a slower driver in the fitted predictor
ScDelta == 30       \* seconds the fitted predictor adds under safety car

(* Program constants *)

BandLow == 5        \* lower end of the pit-loss sanity band
BandHigh == 60      \* upper end of the pit-loss sanity band
PosNone == 0        \* stands for "pos": None of a DNF classification row

None == "None"

Min(a, b) == IF a <= b THEN a ELSE b

-----------------------------------------------------------------------------
(* Python helpers *)

\* dict.get(key, default)
Get(d, k, dflt) == IF k \in DOMAIN d THEN d[k] ELSE dflt

\* seq[-n:] for n >= 0 (seq[-0:] is the whole list)
LastN(seq, n) ==
    IF n = 0 \/ n >= Len(seq) THEN seq
    ELSE SubSeq(seq, Len(seq) - n + 1, Len(seq))

\* InsertByKey placing x before the elements of equal key: an unstable sort
RECURSIVE InsertByKeyStrict(_, _, _)
InsertByKeyStrict(s, x, key) ==
    IF s = <<>> THEN <<x>>
    ELSE IF key[Head(s)] < key[x]
         THEN <<Head(s)>> \o InsertByKeyStrict(Tail(s), x, key)
         ELSE <<x>> \o s

\* insert x into the sorted sequence s after every element whose key is <= key(x)
RECURSIVE InsertByKey(_, _, _)
InsertByKey(s, x, key) ==
    IF s = <<>> THEN <<x>>
    ELSE IF key[Head(s)] <= key[x]
         THEN <<Head(s)>> \o InsertByKey(Tail(s), x, key)
         ELSE <<x>> \o s

\* sorted(seq, key=lambda n: key[n]): ascending and stable
RECURSIVE SortedByKey(_, _)
SortedByKey(seq, key) ==
    IF seq = <<>> THEN <<>>
    ELSE InsertByKey(SortedByKey(SubSeq(seq, 1, Len(seq) - 1), key), seq[Len(seq)], key)

\* insert the number x into the ascending sequence s
RECURSIVE InsertNum(_, _)
InsertNum(s, x) ==
    IF s = <<>> THEN <<x>>
    ELSE IF Head(s) <= x THEN <<Head(s)>> \o InsertNum(Tail(s), x)
         ELSE <<x>> \o s

RECURSIVE SortNums(_)
SortNums(s) == IF s = <<>> THEN <<>> ELSE InsertNum(SortNums(Tail(s)), Head(s))

\* pandas Series.median() of a non-empty series of numbers
Median(s) ==
    LET t == SortNums(s)
        n == Len(t)
    IN  IF n % 2 = 1 THEN t[(n + 1) \div 2]
        ELSE (t[n \div 2] + t[n \div 2 + 1]) \div 2

-----------------------------------------------------------------------------
(* LSTMLapTimeModel._estimate_pit_loss *)

IsBaseRow(r) == r.pit_this_lap = FALSE
IsPitRow(r) == r.pit_this_lap = TRUE

\* InBand with the ends of the band included
InBandClosed(loss) == BandLow <= loss /\ loss <= BandHigh

\* 5 < loss < 60
InBand(loss) == BandLow < loss /\ loss < BandHigh

\* the rows of one circuit (one group of df.groupby(circ_col))
CircuitRows(data, circ) == LET Of(r) == r.circuit = circ IN SelectSeq(data, Of)

\* (pits[lt_col] - med_base).median() for one circuit with both kinds of rows
CircuitLoss(data, circ) ==
    LET g == CircuitRows(data, circ)
        base == SelectSeq(g, IsBaseRow)
        pits == SelectSeq(g, IsPitRow)
        med_base == Median([i \in 1..Len(base) |-> base[i].lap_time])
    IN  Median([i \in 1..Len(pits) |-> pits[i].lap_time - med_base])

\* does the loop body reach pit_loss[str(circ)] = float(loss) for this circuit
HasEstimate(data, circ) ==
    LET g == CircuitRows(data, circ)
    IN  /\ SelectSeq(g, IsBaseRow) # <<>>
        /\ SelectSeq(g, IsPitRow) # <<>>
        /\ InBand(CircuitLoss(data, circ))

EstimatePitLoss(data) ==
    LET circs == {data[i].circuit : i \in 1..Len(data)}
        kept == {c \in circs : HasEstimate(data, c)}
    IN  [c \in kept |-> CircuitLoss(data, c)]

-----------------------------------------------------------------------------
(* SeqPreprocessor.build_single_inputs and LSTMLapTimeModel.predict_sequence *)

\* a padded timestep (index 0 in every categorical sequence, 0.0 in every numeric one)
PadStep ==
    [driver |-> "<PAD>", team |-> "<PAD>", circuit |-> "<PAD>", compound |-> "<PAD>",
     lap_number |-> 0, tyre_age |-> 0, is_sc |-> 0, is_vsc |-> 0, rain |-> 0,
     air_temp |-> 0, track_temp |-> 0, humidity |-> 0, wind_speed |-> 0]

\* the last min(len, max_len) steps, padded on the right to max_len timesteps
BuildSingleInputs(hist_steps, maxlen) ==
    LET L == Min(Len(hist_steps), maxlen)
        steps == LastN(hist_steps, L)
    IN  steps \o [i \in 1..(maxlen - L) |-> PadStep]

\* the fitted network's output for one real timestep
LapTimeOf(step, w) == w[step.driver] + step.tyre_age + ScDelta * step.is_sc

\* self.model.predict(X)[0, :, 0]: one value per timestep of X, padding masked
ModelPredict(X, w) ==
    [i \in 1..Len(X) |-> IF X[i].driver = "<PAD>" THEN 0 ELSE LapTimeOf(X[i], w)]

PredictSequence(steps, maxlen, w) == ModelPredict(BuildSingleInputs(steps, maxlen), w)

-----------------------------------------------------------------------------
(* LSTMSimulator *)

Names(cfg) == [i \in 1..Len(cfg.drivers) |-> cfg.drivers[i].name]

NameSet(cfg) == {cfg.drivers[i].name : i \in 1..Len(cfg.drivers)}

\* _is_sc(lap, sc_windows)
IsSc(n, sc_windows) ==
    \E i \in 1..Len(sc_windows) : sc_windows[i][1] <= n /\ n <= sc_windows[i][2]

\* any(e.lap == lap for e in config.strategy.get(name, []))
WillPit(cfg, name, n) ==
    LET plan == Get(cfg.strategy, name, <<>>)
    IN  \E i \in 1..Len(plan) : plan[i].lap = n

\* NewCompound taking the last event of the lap instead of the first
NewCompoundLast(cfg, name, n) ==
    LET AtLap(e) == e.lap = n
        at_lap == SelectSeq(cfg.strategy[name], AtLap)
    IN  at_lap[Len(at_lap)].compound

\* [e.compound for e in config.strategy[name] if e.lap == lap][0]
NewCompound(cfg, name, n) ==
    LET AtLap(e) == e.lap = n
    IN  SelectSeq(cfg.strategy[name], AtLap)[1].compound

\* the initial state[d.name] of every driver
InitialState(cfg) ==
    [n \in NameSet(cfg) |->
        LET d == CHOOSE x \in {cfg.drivers[i] : i \in 1..Len(cfg.drivers)} : x.name = n
        IN  [team |-> d.team, compound |-> d.start_compound, tyre_age |-> 0,
             total_time |-> 0, grid |-> d.grid, running |-> TRUE]]

\* sorted([d.name for d in config.drivers], key=lambda n: state[n]["grid"])
GridOrder(cfg, st) == SortedByKey(Names(cfg), [n \in DOMAIN st |-> st[n].grid])

\* ApplyDnfs testing the lap after the scheduled one: the driver still runs lap_dnf
RECURSIVE ApplyDnfsLate(_, _, _)
ApplyDnfsLate(st, dnfs, n) ==
    IF dnfs = <<>> THEN st
    ELSE LET name == Head(dnfs)[1]
             lap_dnf == Head(dnfs)[2]
             st1 == IF lap_dnf + 1 = n /\ name \in DOMAIN st /\ st[name].running
                    THEN [st EXCEPT ![name].running = FALSE]
                    ELSE st
         IN  ApplyDnfsLate(st1, Tail(dnfs), n)

\* the DNF loop of lap n over config.dnfs
RECURSIVE ApplyDnfs(_, _, _)
ApplyDnfs(st, dnfs, n) ==
    IF dnfs = <<>> THEN st
    ELSE LET name == Head(dnfs)[1]
             lap_dnf == Head(dnfs)[2]
             st1 == IF lap_dnf = n /\ name \in DOMAIN st /\ st[name].running
                    THEN [st EXCEPT ![name].running = FALSE]
                    ELSE st
         IN  ApplyDnfs(st1, Tail(dnfs), n)

\* for k, v in config.weather_by_lap[lap].items(): step[k] = v
ApplyWeather(step, cfg, n) ==
    IF n \in DOMAIN cfg.weather_by_lap
    THEN LET ov == cfg.weather_by_lap[n]
         IN  [k \in DOMAIN step \cup DOMAIN ov |->
                 IF k \in DOMAIN ov THEN ov[k] ELSE step[k]]
    ELSE step

\* the feature dict built from a driver's state for lap n (step and hist_step)
BuildStep(name, s, cfg, n, is_sc) ==
    ApplyWeather(
        [driver |-> name, team |-> s.team, circuit |-> cfg.circuit,
         compound |-> s.compound, lap_number |-> n, tyre_age |-> s.tyre_age,
         is_sc |-> IF is_sc THEN 1 ELSE 0, is_vsc |-> 0,
         rain |-> IF Get(cfg.default_weather, "rain", FALSE) THEN 1 ELSE 0,
         air_temp |-> Get(cfg.default_weather, "air_temp", None),
         track_temp |-> Get(cfg.default_weather, "track_temp", None),
         humidity |-> Get(cfg.default_weather, "humidity", None),
         wind_speed |-> Get(cfg.default_weather, "wind_speed", None)],
        cfg, n)

\* hist = history[name] + [step]
HistFor(hist, step) == Append(hist, step)

\* the position of yhat_seq that simulate reads (0-based len(hist)-1, here 1-based)
UsedIndex(hist) == Len(hist)

\* Skipped with the running test left out: retired drivers are predicted too
SkippedNever(s) == FALSE

\* if not s["running"]: continue, in the prediction loop
Skipped(s) == ~s.running

\* LapTime with the pit loss forgotten
LapTimeNoLoss(yhat, will_pit, loss) == yhat

\* yhat += pit_loss on a pit lap
LapTime(yhat, will_pit, loss) == IF will_pit THEN yhat + loss ELSE yhat

\* no call of model.predict raises
NoFault == <<>>

\* predict_sequence propagates whatever self.model.predict raises
PredictRaises(flt, n, name) == flt = <<n, name>>

\* the prediction loop of lap n over order[i..]; acc collects lap_times, the hist and
\* raw prediction of each call and whether the call, or indexing yhat_seq, raised
RECURSIVE PredictLoop(_, _, _, _, _, _, _, _, _, _, _)
PredictLoop(i, ord, st, hs, cfg, n, is_sc, maxlen, w, flt, acc) ==
    IF i > Len(ord) \/ acc.raised THEN acc
    ELSE LET name == ord[i]
             s == st[name]
         IN  IF Skipped(s)
             THEN PredictLoop(i + 1, ord, st, hs, cfg, n, is_sc, maxlen, w, flt, acc)
             ELSE LET will_pit == WillPit(cfg, name, n)
                      step == BuildStep(name, s, cfg, n, is_sc)
                      hist == HistFor(hs[name], step)
                      yhat_seq == PredictSequence(hist, maxlen, w)
                      k == UsedIndex(hist)
                      new_hists == [acc.hists EXCEPT ![name] = hist]
                  IN  IF PredictRaises(flt, n, name) \/ k > Len(yhat_seq)
                      THEN [acc EXCEPT !.hists = new_hists, !.raised = TRUE]
                      ELSE PredictLoop(i + 1, ord, st, hs, cfg, n, is_sc, maxlen, w, flt,
                              [lap_times |->
                                   [d \in DOMAIN acc.lap_times \cup {name} |->
                                       IF d = name
                                       THEN LapTime(yhat_seq[k], will_pit, acc.loss)
                                       ELSE acc.lap_times[d]],
                               yhats |-> [acc.yhats EXCEPT ![name] = yhat_seq[k]],
                               hists |-> new_hists,
                               loss |-> acc.loss,
                               raised |-> FALSE])

NoCalls(cfg) == [n \in NameSet(cfg) |-> <<>>]
NoYhats(cfg) == [n \in NameSet(cfg) |-> 0]

Predictions(ord, st, hs, cfg, n, is_sc, maxlen, w, flt, loss) ==
    PredictLoop(1, ord, st, hs, cfg, n, is_sc, maxlen, w, flt,
        [lap_times |-> <<>>, yhats |-> NoYhats(cfg), hists |-> NoCalls(cfg),
         loss |-> loss, raised |-> FALSE])

\* UpdateTotals charging every driver the slowest lap time of the lap
UpdateTotalsSlowest(st, lap_times) ==
    [d \in DOMAIN st |->
        IF d \in DOMAIN lap_times
        THEN LET slow == CHOOSE e \in DOMAIN lap_times :
                             \A f \in DOMAIN lap_times : lap_times[f] <= lap_times[e]
             IN  [st[d] EXCEPT !.total_time = @ + lap_times[slow]]
        ELSE st[d]]

\* for name, t in lap_times.items(): state[name]["total_time"] += t
UpdateTotals(st, lap_times) ==
    [d \in DOMAIN st |->
        IF d \in DOMAIN lap_times
        THEN [st[d] EXCEPT !.total_time = @ + lap_times[d]]
        ELSE st[d]]

\* UpdateTyre with the reset left out: the stop changes the compound only
UpdateTyreNoReset(s, cfg, name, n) ==
    IF WillPit(cfg, name, n)
    THEN [s EXCEPT !.compound = NewCompound(cfg, name, n), !.tyre_age = @ + 1]
    ELSE [s EXCEPT !.tyre_age = @ + 1]

\* the tyre and compound update of one running driver
UpdateTyre(s, cfg, name, n) ==
    IF WillPit(cfg, name, n)
    THEN [s EXCEPT !.compound = NewCompound(cfg, name, n), !.tyre_age = 0]
    ELSE [s EXCEPT !.tyre_age = @ + 1]

UpdateTyres(st, cfg, n) ==
    [d \in DOMAIN st |-> IF st[d].running THEN UpdateTyre(st[d], cfg, d, n) ELSE st[d]]

\* Trim keeping one entry too few: history[name][-(max_len - 1):]
TrimOneShort(hist, maxlen) == LastN(hist, maxlen - 1)

\* history[name][-self.model.prep.max_len:]
Trim(hist, maxlen) == LastN(hist, maxlen)

\* the history push of every running driver
PushHistory(hs, st, cfg, n, is_sc, maxlen) ==
    [d \in DOMAIN hs |->
        IF st[d].running
        THEN Trim(Append(hs[d], BuildStep(d, st[d], cfg, n, is_sc)), maxlen)
        ELSE hs[d]]

IsRunning(st, name) == st[name].running

\* RunningSorted with the sort left out: the running drivers in their previous order
RunningUnsorted(ord, st) ==
    LET Runs(name) == IsRunning(st, name)
    IN  SelectSeq(ord, Runs)

\* sorted(running, key=lambda n: state[n]["total_time"])
RunningSorted(ord, st) ==
    LET Runs(name) == IsRunning(st, name)
    IN  SortedByKey(SelectSeq(ord, Runs), [d \in DOMAIN st |-> st[d].total_time])

\* order = running_sorted + dnfs
Reorder(ord, st) ==
    LET Out(name) == ~IsRunning(st, name)
    IN  RunningSorted(ord, st) \o SelectSeq(ord, Out)

\* the two classification loops over order, pos counting the running drivers
Classification(ord, st) ==
    LET Runs(name) == IsRunning(st, name)
        Out(name) == ~IsRunning(st, name)
        fin == SelectSeq(ord, Runs)
        dnf == SelectSeq(ord, Out)
    IN  [i \in 1..Len(fin) |->
            [pos |-> i, driver |-> fin[i], team |-> st[fin[i]].team,
             total_time |-> st[fin[i]].total_time, status |-> "Finished"]]
        \o
        [i \in 1..Len(dnf) |->
            [pos |-> PosNone, driver |-> dnf[i], team |-> st[dnf[i]].team,
             total_time |-> st[dnf[i]].total_time, status |-> "DNF"]]

NoResult == [classification |-> <<>>, timeline |-> <<>>, pit_loss_used |-> 0]

-----------------------------------------------------------------------------
(* The explored inputs *)

Driver(name, grid) ==
    [name |-> name, team |-> "T_" \o name, grid |-> grid, start_compound |-> "SOFT"]

DemoWeather ==
    [rain |-> FALSE, air_temp |-> 25, track_temp |-> 35, humidity |-> 50, wind_speed |-> 2]

Config(total_laps, drivers, strategy, safety_cars, dnfs, weather_by_lap) ==
    [circuit |-> "MONZA", total_laps |-> total_laps, drivers |-> drivers,
     strategy |-> strategy, safety_cars |-> safety_cars, dnfs |-> dnfs,
     weather_by_lap |-> weather_by_lap, default_weather |-> DemoWeather,
     default_pit_loss |-> 22]

Row(circ, t, pit) == [circuit |-> circ, lap_time |-> t, pit_this_lap |-> pit]

\* rows from which the estimator derives 100 - 80 = 20 s for MONZA
MonzaData == <<Row("MONZA", 80, FALSE), Row("MONZA", 100, TRUE)>>

\* MONZA rows around both ends of the band, and a second circuit
Rows ==
    {Row("MONZA", 80, FALSE), Row("MONZA", 82, FALSE),
     Row("MONZA", 86, TRUE), Row("MONZA", 142, TRUE),
     Row("SPA", 80, FALSE), Row("SPA", 100, TRUE)}

SeqsUpTo(S, n) == UNION {[1..k -> S] : k \in 0..n}

DataSets == SeqsUpTo(Rows, MaxRecords)

PitEvents == [lap : 1..(MaxLaps + 1), compound : {"HARD", "MEDIUM"}]

\* no stop, one stop, or two stops in lap order (the same lap twice included) that
\* ask for different compounds
PitPlans ==
    {<<>>} \cup {<<e>> : e \in PitEvents}
    \cup {p \in PitEvents \X PitEvents :
             p[2].lap >= p[1].lap /\ p[2].compound # p[1].compound}

OneStop == <<[lap |-> 2, compound |-> "HARD"]>>

\* a single retirement, or two entries for the same driver
DnfLists ==
    {<<>>, <<<<"B", 2>>>>}
    \cup {<<<<"A", n>>>> : n \in 1..MaxLaps}
    \cup {d \in [1..2 -> {"A"} \X (2..MaxLaps)] : d[1][2] # d[2][2]}

\* grids of three drivers: the permutations, and two grids with a repeated position
Grids ==
    {g \in [{"A", "B", "C"} -> 1..3] :
        \/ Cardinality({g[n] : n \in {"A", "B", "C"}}) = 3
        \/ g \in {[n \in {"A", "B", "C"} |-> 1],
                  [n \in {"A", "B", "C"} |-> IF n = "A" THEN 2 ELSE 1]}}

Paces ==
    {[n \in {"A", "B", "C"} |-> 90],
     [n \in {"A", "B", "C"} |-> IF n = "A" THEN SlowPace ELSE 90],
     [n \in {"A", "B", "C"} |-> IF n = "C" THEN 90 ELSE SlowPace]}

Retirements == SeqsUpTo({"A", "B"} \X (2..MaxLaps), 2)

FaultDnfs == {<<>>, <<<<"B", 2>>>>}

Windows == (1..MaxLaps) \X (1..MaxLaps)

ScLists ==
    {<<>>} \cup {<<v>> : v \in Windows}
    \cup {<<v, w>> : v \in {x \in Windows : x[1] <= x[2]},
                     w \in {x \in Windows : x[1] <= x[2]}}

OverrideDicts ==
    {[rain |-> 1], [air_temp |-> 30, track_temp |-> 45], [is_sc |-> 1], [is_sc |-> 0],
     [tyre_age |-> 7]}

WeatherByLap ==
    {<<>>} \cup {[l \in {n} |-> o] : n \in 1..2, o \in OverrideDicts}

-----------------------------------------------------------------------------
(* Behaviour *)

InitFaulty(cfg, maxlen, w, data, flt) ==
    /\ config = cfg
    /\ fault = flt
    /\ max_len = maxlen
    /\ pace = w
    /\ df = data
    /\ pit_loss_by_circuit = <<>>
    /\ pc = "new"
    /\ pit_loss = 0
    /\ state = <<>>
    /\ history = <<>>
    /\ order = <<>>
    /\ timeline = <<>>
    /\ lap = 0
    /\ hists = <<>>
    /\ yhats = <<>>
    /\ result = NoResult

InitWith(cfg, maxlen, w, data) == InitFaulty(cfg, maxlen, w, data, NoFault)

\* driver dynamics: stops, retirements, history length
InitDynamics ==
    \E t \in 0..MaxLaps, m \in 1..MaxLaps, p \in PitPlans, d \in DnfLists,
       data \in {<<>>, MonzaData} :
        InitWith(Config(t, <<Driver("A", 1), Driver("B", 2)>>, [n \in {"A"} |-> p],
                        <<>>, d, <<>>),
                 m, [n \in {"A", "B"} |-> 90], data)

\* running order and classification: grids, paces, retirements
InitOrdering ==
    \E t \in 1..MaxLaps, g \in Grids, w \in Paces, d \in Retirements,
       s \in {<<>>, [n \in {"C"} |-> OneStop]} :
        InitWith(Config(t, <<Driver("A", g["A"]), Driver("B", g["B"]), Driver("C", g["C"])>>,
                        s, <<>>, d, <<>>),
                 MaxLaps, w, <<>>)

\* snapshots: safety-car windows and per-lap weather overrides
InitSnapshots ==
    \E t \in 1..MaxLaps, sc \in ScLists, wx \in WeatherByLap :
        InitWith(Config(t, <<Driver("A", 1)>>, [n \in {"A"} |-> OneStop], sc, <<>>, wx),
                 MaxLaps, [n \in {"A"} |-> 90], <<>>)

\* the estimator: every small data set, one driver stopping on the only lap
InitPitLoss ==
    \E data \in DataSets :
        InitWith(Config(1, <<Driver("A", 1)>>,
                        [n \in {"A"} |-> <<[lap |-> 1, compound |-> "HARD"]>>],
                        <<>>, <<>>, <<>>),
                 1, [n \in {"A"} |-> 90], data)

\* a failing predictor call: every call of a three-driver race may be the one
InitFaults ==
    \E g \in Grids, d \in FaultDnfs, n \in 1..MaxLaps, f \in {"A", "B", "C"} :
        InitFaulty(Config(MaxLaps,
                          <<Driver("A", g["A"]), Driver("B", g["B"]), Driver("C", g["C"])>>,
                          [x \in {"C"} |-> OneStop], <<>>, d, <<>>),
                   MaxLaps, [x \in {"A", "B", "C"} |-> 90], <<>>, <<n, f>>)

Init == InitDynamics \/ InitOrdering \/ InitSnapshots \/ InitPitLoss \/ InitFaults

\* fit_from_csv: self.pit_loss_by_circuit = self._estimate_pit_loss(df, mapping)
FitFromCsv ==
    /\ pc = "new"
    /\ pit_loss_by_circuit' = EstimatePitLoss(df)
    /\ pc' = "fitted"
    /\ UNCHANGED <<df, max_len, pace, config, pit_loss, state, history, order,
                   timeline, lap, hists, yhats, result, fault>>

\* pit_loss = self.model.pit_loss_by_circuit.get(config.circuit, config.default_pit_loss)
PitLossUsed(by_circuit, cfg) == Get(by_circuit, cfg.circuit, cfg.default_pit_loss)

\* simulate, up to the lap loop
SimulateBegin ==
    /\ pc = "fitted"
    /\ pit_loss' = PitLossUsed(pit_loss_by_circuit, config)
    /\ state' = InitialState(config)
    /\ history' = [n \in NameSet(config) |-> <<>>]
    /\ order' = GridOrder(config, InitialState(config))
    /\ timeline' = <<>>
    /\ lap' = 0
    /\ hists' = NoCalls(config)
    /\ yhats' = NoYhats(config)
    /\ pc' = "running"
    /\ UNCHANGED <<df, pit_loss_by_circuit, max_len, pace, config, result, fault>>

\* the predictions of lap n, made on the state left by the DNF loop
LapPredictions(n) ==
    Predictions(order, ApplyDnfs(state, config.dnfs, n), history, config, n,
                IsSc(n, config.safety_cars), max_len, pace, fault, pit_loss)

\* one pass of the lap loop
SimulateLap ==
    /\ pc = "running"
    /\ lap < config.total_laps
    /\ LET n == lap + 1
           is_sc == IsSc(n, config.safety_cars)
           pr == LapPredictions(n)
           st1 == ApplyDnfs(state, config.dnfs, n)
           st2 == UpdateTotals(st1, pr.lap_times)
           st3 == UpdateTyres(st2, config, n)
       IN  /\ ~pr.raised
           /\ lap' = n
           /\ hists' = pr.hists
           /\ yhats' = pr.yhats
           /\ state' = st3
           /\ history' = PushHistory(history, st3, config, n, is_sc, max_len)
           /\ order' = Reorder(order, st3)
           /\ timeline' = Append(timeline,
                  [lap |-> n, order |-> RunningSorted(order, st3),
                   lap_times |-> pr.lap_times, is_sc |-> is_sc])
    /\ UNCHANGED <<df, pit_loss_by_circuit, max_len, pace, config, pc, pit_loss, result,
                   fault>>

\* StateAtRaise with each lap time accumulated as soon as it is predicted
StateAtRaiseEager(st, lap_times) == UpdateTotals(st, lap_times)

\* the exception leaves simulate from inside the prediction loop, before the loop
\* that adds lap_times to the totals
StateAtRaise(st, lap_times) == st

\* a pass of the lap loop in which predict_sequence, or yhat_seq[len(hist)-1], raises:
\* simulate ends with the exception, after the DNF loop and the calls made so far
SimulateLapRaises ==
    /\ pc = "running"
    /\ lap < config.total_laps
    /\ LET n == lap + 1
           pr == LapPredictions(n)
       IN  /\ pr.raised
           /\ lap' = n
           /\ hists' = pr.hists
           /\ yhats' = pr.yhats
           /\ state' = StateAtRaise(ApplyDnfs(state, config.dnfs, n), pr.lap_times)
    /\ pc' = "failed"
    /\ UNCHANGED <<df, pit_loss_by_circuit, max_len, pace, config, pit_loss, history,
                   order, timeline, result, fault>>

\* the final classification and the returned dict
SimulateReturn ==
    /\ pc = "running"
    /\ lap >= config.total_laps
    /\ result' = [classification |-> Classification(order, state),
                  timeline |-> timeline, pit_loss_used |-> pit_loss]
    /\ pc' = "done"
    /\ UNCHANGED <<df, pit_loss_by_circuit, max_len, pace, config, pit_loss, state,
                   history, order, timeline, lap, hists, yhats, fault>>

Next ==
    \/ FitFromCsv
    \/ SimulateBegin
    \/ SimulateLap
    \/ SimulateLapRaises
    \/ SimulateReturn

Spec == Init /\ [][Next]_vars

-----------------------------------------------------------------------------
(* Properties *)

Started == pc \in {"running", "done", "failed"}

\* a lap boundary: every lap up to `lap` has been processed completely
AtBoundary == pc \in {"running", "done"}

\* C1: a driver's total_time never decreases from one step of simulate to the next,
\* it changes in a lap only for a driver that is running in that lap, and the
\* total_time of a driver that is not running never changes
C1_TotalTimeMonotone ==
    [][\A d \in DOMAIN state :
          /\ state'[d].total_time >= state[d].total_time
          /\ state'[d].total_time # state[d].total_time => state'[d].running
          /\ ~state[d].running => state'[d].total_time = state[d].total_time]_vars

\* a retired driver keeps the time of its laps while a running one is ahead in time
C1_Witness ==
    /\ pc = "running" /\ lap = 3
    /\ \E d \in DOMAIN state :
          /\ ~state[d].running /\ state[d].total_time > 0
          /\ \E e \in DOMAIN state :
                state[e].running /\ state[e].total_time > state[d].total_time

\* the last lap in 1..n in which name's plan has an event, 0 when there is none
LastPitLap(cfg, name, n) ==
    LET laps == {k \in 1..n : WillPit(cfg, name, k)}
    IN  IF laps = {} THEN 0 ELSE CHOOSE k \in laps : \A j \in laps : j <= k

\* C2: at every lap boundary the tyre_age of a running driver is the number of laps
\* completed since its most recent pit lap, or since the start when it has not pitted
C2_TyreAge ==
    AtBoundary =>
        \A d \in DOMAIN state :
            state[d].running => state[d].tyre_age = lap - LastPitLap(config, d, lap)

\* a driver that stopped on lap 2 has tyre_age 1 after lap 3
C2_Witness ==
    /\ pc = "running" /\ lap = 3
    /\ state["A"].running /\ WillPit(config, "A", 2) /\ ~WillPit(config, "A", 3)
    /\ state["A"].tyre_age = 1

\* the number of laps a driver has run: the timeline entries that hold a time for it
LapsRun(d) == Cardinality({i \in 1..Len(timeline) : d \in DOMAIN timeline[i].lap_times})

\* C3: the rolling history never holds more than max_len snapshots, and at a lap
\* boundary it holds the snapshots of the driver's last min(laps run, max_len) laps,
\* in increasing lap order
C3_RollingHistory ==
    Started =>
        \A d \in DOMAIN history :
            /\ Len(history[d]) <= max_len
            /\ AtBoundary =>
                /\ Len(history[d]) = Min(LapsRun(d), max_len)
                /\ \A i \in 1..Len(history[d]) :
                      /\ history[d][i].driver = d
                      /\ history[d][i].lap_number = LapsRun(d) - Len(history[d]) + i

\* a history filled to max_len >= 2 snapshots
C3_Witness ==
    /\ AtBoundary /\ max_len >= 2
    /\ \E d \in DOMAIN history : Len(history[d]) = max_len /\ LapsRun(d) = max_len

\* C4: every sequence handed to the predictor has between 1 and max_len steps, and
\* the value simulate uses is the prediction for the last step of that sequence
C4_PredictorCalls ==
    (Started /\ fault = NoFault) =>
        \A d \in DOMAIN hists :
            hists[d] # <<>> =>
                /\ Len(hists[d]) \in 1..max_len
                /\ yhats[d] = LapTimeOf(hists[d][Len(hists[d])], pace)

\* C5: the classification lists every configured driver once; the running drivers
\* come first, Finished, at positions 1..k in ascending total_time; the retired
\* drivers follow, DNF, without a position
C5_Classification ==
    pc = "done" =>
        LET c == result.classification
            k == Cardinality({d \in DOMAIN state : state[d].running})
        IN  /\ Len(c) = Cardinality(NameSet(config))
            /\ {c[i].driver : i \in 1..Len(c)} = NameSet(config)
            /\ \A i \in 1..Len(c) :
                  /\ c[i].total_time = state[c[i].driver].total_time
                  /\ i <= k => /\ c[i].status = "Finished"
                               /\ c[i].pos = i
                               /\ state[c[i].driver].running
                  /\ i > k => /\ c[i].status = "DNF"
                              /\ c[i].pos = PosNone
                              /\ ~state[c[i].driver].running
            /\ \A i \in 1..Len(c), j \in 1..Len(c) :
                  i < j /\ j <= k => c[i].total_time <= c[j].total_time

\* two finishers with different times, the one that started behind ahead, and a DNF
C5_Witness ==
    /\ pc = "done"
    /\ Len(result.classification) = 3
    /\ result.classification[1].total_time < result.classification[2].total_time
    /\ state[result.classification[1].driver].grid > state[result.classification[2].driver].grid
    /\ result.classification[2].status = "Finished"
    /\ result.classification[3].status = "DNF"
    /\ result.classification[3].total_time > 0

\* the time the timeline records for d in its first k entries
RECURSIVE SumTimes(_, _)
SumTimes(d, k) ==
    IF k = 0 THEN 0
    ELSE SumTimes(d, k - 1)
         + IF d \in DOMAIN timeline[k].lap_times THEN timeline[k].lap_times[d] ELSE 0

\* the first lap >= 1 for which config.dnfs schedules d's retirement
FirstDnfLap(cfg, d) ==
    LET laps == {cfg.dnfs[i][2] : i \in {j \in 1..Len(cfg.dnfs) :
                                            cfg.dnfs[j][1] = d /\ cfg.dnfs[j][2] >= 1}}
    IN  CHOOSE n \in laps : \A m \in laps : n <= m

StartCompound(cfg, d) ==
    (CHOOSE x \in {cfg.drivers[i] : i \in 1..Len(cfg.drivers)} : x.name = d).start_compound

\* the compound d is on after lap n: that of its last stop, else the one it started on
CompoundAfter(cfg, d, n) ==
    IF LastPitLap(cfg, d, n) = 0 THEN StartCompound(cfg, d)
    ELSE NewCompound(cfg, d, LastPitLap(cfg, d, n))

\* C6: once the lap of a scheduled retirement has begun the driver is not running;
\* it has a lap time in no timeline entry from that lap on, its total_time is the sum
\* of its earlier laps, and its compound, tyre_age and history are those it had after
\* the lap before its (first) retirement lap, whatever its pit plan says
C6_Retirement ==
    Started =>
        \A x \in 1..Len(config.dnfs) :
            LET d == config.dnfs[x][1]
                n == config.dnfs[x][2]
                r == FirstDnfLap(config, d)
            IN  (d \in DOMAIN state /\ n >= 1 /\ lap >= n) =>
                    /\ ~state[d].running
                    /\ \A i \in 1..Len(timeline) :
                          timeline[i].lap >= n => d \notin DOMAIN timeline[i].lap_times
                    /\ state[d].total_time = SumTimes(d, Min(r - 1, Len(timeline)))
                    /\ state[d].tyre_age = (r - 1) - LastPitLap(config, d, r - 1)
                    /\ state[d].compound = CompoundAfter(config, d, r - 1)
                    /\ \A i \in 1..Len(history[d]) : history[d][i].lap_number < r

\* a driver retired on lap 2 whose plan has a stop on lap 2: after lap 3 it holds the
\* time of lap 1 alone and is still on its first set of tyres
C6_Witness ==
    /\ pc = "running" /\ lap = 3
    /\ config.dnfs = <<<<"A", 2>>>>
    /\ WillPit(config, "A", 2)
    /\ state["A"].total_time = 90
    /\ state["A"].compound = "SOFT"
    /\ state["B"].total_time > 270

\* the pit loss simulate is to use: the circuit's estimate, else the configured default
ExpectedLoss ==
    IF config.circuit \in DOMAIN pit_loss_by_circuit
    THEN pit_loss_by_circuit[config.circuit]
    ELSE config.default_pit_loss

PlanHasEvent(d, n) ==
    /\ d \in DOMAIN config.strategy
    /\ \E i \in 1..Len(config.strategy[d]) : config.strategy[d][i].lap = n

\* C7: the time recorded for a running driver in lap n is the predictor's value, plus
\* the pit loss exactly when its plan has an event at lap n; that time is what
\* total_time grows by; the pit loss is the circuit's estimate, else the default, and
\* is what simulate returns as pit_loss_used
C7_LapTime ==
    AtBoundary =>
        /\ pit_loss = ExpectedLoss
        /\ pc = "done" => result.pit_loss_used = ExpectedLoss
        /\ Len(timeline) = lap
        /\ \A d \in DOMAIN state : state[d].total_time = SumTimes(d, lap)
        /\ lap >= 1 =>
              LET e == timeline[lap]
              IN  /\ DOMAIN e.lap_times = {d \in DOMAIN state : state[d].running}
                  /\ \A d \in DOMAIN e.lap_times :
                        /\ yhats[d] = LapTimeOf(hists[d][Len(hists[d])], pace)
                        /\ e.lap_times[d] =
                              yhats[d] + IF PlanHasEvent(d, lap) THEN ExpectedLoss ELSE 0

\* a prediction of 90 s and the default pit loss of 22 s give 112 s on the pit lap, and
\* a later stop of the same run is charged the same loss
C7_Witness ==
    /\ AtBoundary /\ lap = 3
    /\ pit_loss = 22
    /\ timeline[1].lap_times["A"] = 112
    /\ PlanHasEvent("A", 1) /\ PlanHasEvent("A", 3)
    /\ timeline[3].lap_times["A"] = yhats["A"] + 22

InWindow(n) ==
    \E i \in 1..Len(config.safety_cars) :
        config.safety_cars[i][1] <= n /\ n <= config.safety_cars[i][2]

\* C8: the safety-car flag of the timeline entry of lap n, and of every snapshot built
\* for lap n, is set exactly when n lies in a configured window, ends included
C8_SafetyCarFlag ==
    Started =>
        /\ \A i \in 1..Len(timeline) : timeline[i].is_sc = InWindow(timeline[i].lap)
        /\ \A d \in DOMAIN history :
              /\ \A i \in 1..Len(history[d]) :
                    (history[d][i].is_sc = 1) = InWindow(history[d][i].lap_number)
              /\ \A i \in 1..Len(hists[d]) :
                    (hists[d][i].is_sc = 1) = InWindow(hists[d][i].lap_number)

\* the part of C8 about the timeline alone
C8_TimelineFlag ==
    Started => \A i \in 1..Len(timeline) : timeline[i].is_sc = InWindow(timeline[i].lap)

\* a configuration the specification calls invalid
BadConfig(cfg) ==
    \/ cfg.total_laps < 1
    \/ \E i \in 1..Len(cfg.drivers), j \in 1..Len(cfg.drivers) :
          i # j /\ cfg.drivers[i].grid = cfg.drivers[j].grid
    \/ \E d \in DOMAIN cfg.strategy : \E i \in 1..Len(cfg.strategy[d]) :
          cfg.strategy[d][i].lap \notin 1..cfg.total_laps

\* C9: simulate does not start on an invalid configuration
C9_BadConfigRejected == BadConfig(config) => ~Started


\* the k-th smallest of the values v[1..n], by counting
Kth(v, k) ==
    CHOOSE x \in {v[i] : i \in DOMAIN v} :
        /\ Cardinality({i \in DOMAIN v : v[i] < x}) < k
        /\ Cardinality({i \in DOMAIN v : v[i] <= x}) >= k

\* twice the median of the values v[1..n], n >= 1
TwiceMedian(v) ==
    LET n == Len(v) IN Kth(v, (n + 1) \div 2) + Kth(v, (n + 2) \div 2)

RowsOf(circ, pit) ==
    LET Sel(r) == r.circuit = circ /\ r.pit_this_lap = pit IN SelectSeq(df, Sel)

\* four times the median over circ's pit laps of (lap time - median non-pit lap time)
FourTimesLoss(circ) ==
    LET base == RowsOf(circ, FALSE)
        pits == RowsOf(circ, TRUE)
        b2 == TwiceMedian([i \in 1..Len(base) |-> base[i].lap_time])
    IN  TwiceMedian([i \in 1..Len(pits) |-> 2 * pits[i].lap_time - b2])

\* circ has pit and non-pit rows and its median loss lies strictly inside (5 s, 60 s)
EstimateExpected(circ) ==
    /\ RowsOf(circ, FALSE) # <<>>
    /\ RowsOf(circ, TRUE) # <<>>
    /\ 4 * BandLow < FourTimesLoss(circ)
    /\ FourTimesLoss(circ) < 4 * BandHigh

\* C10: after fitting, a circuit has a pit-loss estimate exactly when it has a pit lap
\* and a non-pit lap and its median loss is strictly between 5 s and 60 s, the estimate
\* is that median, and simulate uses the configured default at a circuit without one
C10_PitLossEstimate ==
    pc # "new" =>
        /\ \A circ \in {"MONZA", "SPA"} :
              /\ (circ \in DOMAIN pit_loss_by_circuit) = EstimateExpected(circ)
              /\ circ \in DOMAIN pit_loss_by_circuit =>
                    4 * pit_loss_by_circuit[circ] = FourTimesLoss(circ)
        /\ (Started /\ ~EstimateExpected(config.circuit)) =>
              pit_loss = config.default_pit_loss

\* a median loss of exactly 5 s or exactly 60 s: no estimate, the stop costs the default
C10_Witness ==
    /\ pc = "done"
    /\ RowsOf("MONZA", FALSE) # <<>> /\ RowsOf("MONZA", TRUE) # <<>>
    /\ FourTimesLoss("MONZA") \in {4 * BandLow, 4 * BandHigh}
    /\ "SPA" \in DOMAIN pit_loss_by_circuit
    /\ result.pit_loss_used = config.default_pit_loss
    /\ timeline[1].lap_times["A"] = yhats["A"] + config.default_pit_loss

\* C11: with a predictor that never raises, simulate goes through the laps
\* 1, 2, ..., total_laps in increasing order, one timeline entry each, never ends
\* with an exception, and returns a timeline of exactly total_laps entries
C11_RunCompletes ==
    (Started /\ fault = NoFault /\ config.total_laps >= 1 /\ max_len >= 1) =>
        /\ pc # "failed"
        /\ Len(timeline) = lap
        /\ \A i \in 1..Len(timeline) : timeline[i].lap = i
        /\ pc = "done" =>
              /\ lap = config.total_laps
              /\ result.timeline = timeline

\* a predictor call has raised on the lap now counted by lap
Raised == pc = "failed"

\* the cumulative time, compound and tyre age of every driver
Progress(st) ==
    [d \in DOMAIN st |->
        [total_time |-> st[d].total_time, compound |-> st[d].compound,
         tyre_age |-> st[d].tyre_age]]

\* C13: the lap in which a predictor call fails leaves every driver's cumulative
\* time, compound, tyre age and rolling history as they were at the previous lap
\* boundary, adds no timeline entry, and nothing is returned: simulate ends there
C13_FailedLapLeavesNoTrace ==
    [][(pc' = "failed") =>
          /\ pc = "running"
          /\ Progress(state') = Progress(state)
          /\ history' = history
          /\ timeline' = timeline
          /\ order' = order
          /\ result' = NoResult]_vars

\* the second driver's call fails on lap 2 after the first driver's call succeeded
C13_Witness ==
    /\ Raised /\ lap = 2 /\ fault # NoFault
    /\ \E d \in DOMAIN hists : d # fault[2] /\ Len(hists[d]) = 2 /\ yhats[d] > 0
    /\ \A d \in DOMAIN state : state[d].total_time = timeline[1].lap_times[d]

\* the snapshot handed to the predictor for d in the current lap
PredictorStep(d) == hists[d][Len(hists[d])]

\* the snapshot pushed on d's history in the current lap
HistoryStep(d) == history[d][Len(history[d])]

\* the predictor saw the tyres as they were after lap n-1, the history entry of lap n
\* has them as they are after the update of lap n
TyresBeforeAndAfter(d, n) ==
    LET p == PredictorStep(d)
        h == HistoryStep(d)
    IN  /\ p.lap_number = n /\ h.lap_number = n
        /\ p.compound = CompoundAfter(config, d, n - 1)
        /\ p.tyre_age = (n - 1) - LastPitLap(config, d, n - 1)
        /\ IF PlanHasEvent(d, n)
           THEN h.compound = NewCompound(config, d, n) /\ h.tyre_age = 0
           ELSE h.compound = p.compound /\ h.tyre_age = p.tyre_age + 1
        /\ h.compound = state[d].compound /\ h.tyre_age = state[d].tyre_age

\* C12: for every driver that ran lap n, the snapshot given to the predictor carries
\* the compound and tyre age held at the end of lap n-1, and the snapshot appended to
\* the history carries the values after the update of lap n: new compound and
\* tyre age 0 on a pit lap, the same compound and one more lap of age otherwise
C12_PrePitPostPit ==
    (AtBoundary /\ lap >= 1) =>
        \A d \in DOMAIN timeline[lap].lap_times : TyresBeforeAndAfter(d, lap)

\* the same statement for the laps whose weather override names no tyre field
C12_WithoutTyreOverride ==
    (AtBoundary /\ lap >= 1
       /\ (lap \in DOMAIN config.weather_by_lap =>
              DOMAIN config.weather_by_lap[lap] \cap {"compound", "tyre_age"} = {})) =>
        \A d \in DOMAIN timeline[lap].lap_times : TyresBeforeAndAfter(d, lap)

WeatherFields == {"rain", "air_temp", "track_temp", "humidity", "wind_speed"}

\* the value the weather inputs give field k on lap n
WeatherValue(k, n) ==
    IF n \in DOMAIN config.weather_by_lap /\ k \in DOMAIN config.weather_by_lap[n]
    THEN config.weather_by_lap[n][k]
    ELSE IF k = "rain" THEN (IF config.default_weather[k] THEN 1 ELSE 0)
         ELSE config.default_weather[k]

\* snapshot x of driver d for lap n, taken when d had the given compound and tyre age
FramedSnapshot(x, d, n, compound, tyre_age) ==
    /\ x.driver = d
    /\ x.team = state[d].team
    /\ x.circuit = config.circuit
    /\ x.lap_number = n
    /\ x.compound = compound
    /\ x.tyre_age = tyre_age
    /\ x.is_sc = (IF InWindow(n) THEN 1 ELSE 0)
    /\ \A k \in WeatherFields : x[k] = WeatherValue(k, n)

\* C16: whatever the weather override of lap n contains, the snapshot given to the
\* predictor and the snapshot stored in history take driver, team, circuit, compound,
\* lap_number, tyre_age and the safety-car flag from the engine state, and only the
\* weather fields from the override, else from the default weather
C16_OverrideOnlyWeather ==
    (AtBoundary /\ lap >= 1) =>
        \A d \in DOMAIN timeline[lap].lap_times :
            /\ FramedSnapshot(PredictorStep(d), d, lap, CompoundAfter(config, d, lap - 1),
                              (lap - 1) - LastPitLap(config, d, lap - 1))
            /\ FramedSnapshot(HistoryStep(d), d, lap, state[d].compound, state[d].tyre_age)

\* the weather fields alone: an overridden field wins over the default
C16_WeatherFieldsMerged ==
    (AtBoundary /\ lap >= 1) =>
        \A d \in DOMAIN timeline[lap].lap_times : \A k \in WeatherFields :
            /\ PredictorStep(d)[k] = WeatherValue(k, lap)
            /\ HistoryStep(d)[k] = WeatherValue(k, lap)

\* the place of driver d in the sequence ord
Pos(ord, d) == CHOOSE i \in 1..Len(ord) : ord[i] = d

\* the running order after `lap` laps: a permutation of the drivers, the running ones
\* first in ascending total_time, then the retired ones, the later retirement first;
\* before lap 1 it is the grid order
OrderShape ==
    /\ Len(order) = Cardinality(NameSet(config))
    /\ {order[i] : i \in 1..Len(order)} = NameSet(config)
    /\ \A i \in 1..Len(order), j \in 1..Len(order) :
          i < j =>
            LET a == state[order[i]]
                b == state[order[j]]
            IN  /\ b.running => a.running
                /\ (a.running /\ b.running) => a.total_time <= b.total_time
                /\ (~a.running /\ ~b.running) =>
                      FirstDnfLap(config, order[i]) >= FirstDnfLap(config, order[j])
                /\ lap = 0 => a.grid <= b.grid

\* running drivers with equal total_time stand as they stood in the previous order
TiesKept ==
    \A i \in 1..Len(order'), j \in 1..Len(order') :
        (/\ i < j
         /\ state'[order'[i]].running /\ state'[order'[j]].running
         /\ state'[order'[i]].total_time = state'[order'[j]].total_time
         /\ order # <<>>)
        => Pos(order, order'[i]) < Pos(order, order'[j])

\* C14: at every lap boundary the order is a permutation of the configured drivers
\* with the running drivers, in ascending total_time, before the retired ones; tied
\* running drivers keep their relative order of the previous boundary (the grid order
\* before lap 1); a driver retired on an earlier lap stands after one retired later
C14_RunningOrder ==
    [][(pc' \in {"running", "done"}) => (OrderShape' /\ TiesKept)]_vars

\* after lap 3 two running drivers are level on time and stand in grid order, which
\* is not the roster order, ahead of a driver that retired with laps on the clock
C14_Witness ==
    /\ AtBoundary /\ lap = 3 /\ Len(order) = 3
    /\ state[order[1]].running /\ state[order[2]].running /\ ~state[order[3]].running
    /\ state[order[1]].total_time = state[order[2]].total_time
    /\ order[1] = "C" /\ state[order[1]].grid < state[order[2]].grid
    /\ state[order[3]].total_time > 0

\* the places of d's pit plan that hold an event for lap n
EventsAt(d, n) ==
    IF d \in DOMAIN config.strategy
    THEN {i \in 1..Len(config.strategy[d]) : config.strategy[d][i].lap = n}
    ELSE {}

\* C15: when the plan of a driver that ran lap n holds several events for lap n, after
\* the lap the driver is on the compound of the first of them in stored order, its
\* tyre_age is 0, and its lap time is the prediction plus the pit loss, once
C15_DuplicatePitEvents ==
    (AtBoundary /\ lap >= 1) =>
        \A d \in DOMAIN timeline[lap].lap_times :
            Cardinality(EventsAt(d, lap)) >= 2 =>
                LET first == CHOOSE i \in EventsAt(d, lap) : \A j \in EventsAt(d, lap) : i <= j
                IN  /\ state[d].compound = config.strategy[d][first].compound
                    /\ state[d].tyre_age = 0
                    /\ timeline[lap].lap_times[d] = yhats[d] + ExpectedLoss

\* two events on lap 2, HARD then MEDIUM: after lap 2 the driver is on HARD with new
\* tyres and was charged 22 s once
C15_Witness ==
    /\ AtBoundary /\ lap = 2
    /\ config.strategy["A"] = <<[lap |-> 2, compound |-> "HARD"],
                                [lap |-> 2, compound |-> "MEDIUM"]>>
    /\ state["A"].compound = "HARD" /\ state["A"].tyre_age = 0
    /\ pit_loss = 22
    /\ timeline[2].lap_times["A"] = yhats["A"] + 22

\* d has a retirement scheduled
Retires(d) == \E i \in 1..Len(config.dnfs) : config.dnfs[i][1] = d /\ config.dnfs[i][2] >= 1

\* d runs lap n: d's own retirement, if any, comes later
RunsLap(d, n) == Retires(d) => n < FirstDnfLap(config, d)

\* the laps d has run among the first k
OwnLaps(d, k) == IF Retires(d) THEN Min(k, FirstDnfLap(config, d) - 1) ELSE k

\* override of the engine field k on lap n, else the engine's value v
Overridden(k, n, v) ==
    IF n \in DOMAIN config.weather_by_lap /\ k \in DOMAIN config.weather_by_lap[n]
    THEN config.weather_by_lap[n][k]
    ELSE v

\* the time of d's lap n, from the predictor, d's own plan and what all drivers share
OwnLapTime(d, n) ==
    pace[d]
    + Overridden("tyre_age", n, (n - 1) - LastPitLap(config, d, n - 1))
    + ScDelta * Overridden("is_sc", n, IF InWindow(n) THEN 1 ELSE 0)
    + (IF PlanHasEvent(d, n) THEN ExpectedLoss ELSE 0)

RECURSIVE OwnTotal(_, _)
OwnTotal(d, k) ==
    IF k = 0 THEN 0
    ELSE OwnTotal(d, k - 1) + (IF RunsLap(d, k) THEN OwnLapTime(d, k) ELSE 0)

\* C17: the lap times, cumulative time, compound and tyre age of a driver are a
\* function of the predictor, the circuit, lap count, weather and safety-car windows
\* and of that driver's own start compound, pit plan and retirement alone; so two
\* runs that agree on these give the driver the same values whatever the other
\* drivers, their grid places, plans and retirements are
C17_DriverIndependence ==
    Started =>
        \A d \in NameSet(config) :
            LET k == Len(timeline)
            IN  /\ \A n \in 1..k :
                      /\ d \in DOMAIN timeline[n].lap_times <=> RunsLap(d, n)
                      /\ RunsLap(d, n) => timeline[n].lap_times[d] = OwnLapTime(d, n)
                /\ state[d].total_time = OwnTotal(d, k)
                /\ state[d].compound = CompoundAfter(config, d, OwnLaps(d, k))
                /\ state[d].tyre_age = OwnLaps(d, k) - LastPitLap(config, d, OwnLaps(d, k))
                /\ Len(history[d]) = Min(OwnLaps(d, k), max_len)
                /\ \A i \in 1..Len(history[d]) : history[d][i].driver = d

\* three drivers, one slower by pace and one by a stop on lap 2 that costs it the
\* lead: each has the times of its own configuration
C17_Witness ==
    /\ AtBoundary /\ lap = 3 /\ Len(order) = 3
    /\ \A d \in DOMAIN state : state[d].running
    /\ timeline[1].order[1] = "C" /\ timeline[2].order[1] # "C"
    /\ timeline[2].lap_times["C"] > timeline[2].lap_times["B"]
    /\ timeline[2].lap_times["A"] # timeline[2].lap_times["B"]
    /\ state["B"].total_time = OwnTotal("B", 3)
====
